---- MODULE Spec2Model ----
(***************************************************************************)
(* Model of youtube_dl/extractor/ndtv.py: the seven NDTV extractors        *)
(* (NDTVIE, NDTVKhabarIE, NDTVAutoIE, NDTVMoviesFoodSwirlsterIE,           *)
(* NDTVSportsIE, NDTVGadgetsIE, NDTVDoctorIE).                             *)
(*                                                                         *)
(* A URL is an origin (scheme, host label, domain) followed by a path of   *)
(* tokens; a page is its script text as a sequence of tokens (the          *)
(* variant's start marker, its end marker, newline, blank, the literal)    *)
(* together with the literal's content, the meta tags, the open-graph tags *)
(* and the first matches of the inline patterns.                           *)
(***************************************************************************)
EXTENDS Integers, Sequences, FiniteSets, TLC

VARIABLES url, page, pc, handled, outcome, log

vars == <<url, page, pc, handled, outcome, log>>

\* Every text of the model (an id, a title, a date, a page's script) is a
\* sequence of tokens; "" is the empty sequence. Python's None is a value that
\* no text equals.
None == <<"None">>

\* ---------------------------------------------------------------- bounds
\* Longest URL path, in tokens.
MaxPath == 4
\* Longest script text, in tokens.
MaxText == 4
\* Extraction calls made by one caller after the first.
MaxCalls == 2

\* Sequences over S of length at most n.
SeqsUpTo(S, n) == UNION {[1..k -> S] : k \in 0..n}

\* ------------------------------------------------------------ the router
Variants == {"NDTVIE", "NDTVKhabarIE", "NDTVAutoIE", "NDTVMoviesFoodSwirlsterIE",
             "NDTVSportsIE", "NDTVGadgetsIE", "NDTVDoctorIE"}

\* The host alternation of each _VALID_URL.
NDTVIE_hosts == {"www", "profit"}
\* A khabar pattern whose alternation also takes the www host.
NDTVKhabarIE_hosts_with_www == {"khabar", "www"}
NDTVKhabarIE_hosts == {"khabar"}
NDTVAutoIE_hosts == {"auto"}
NDTVMoviesFoodSwirlsterIE_hosts == {"movies", "food", "swirlster"}
NDTVSportsIE_hosts == {"sports"}
NDTVGadgetsIE_hosts == {"gadgets"}
NDTVDoctorIE_hosts == {"doctor"}

ValidHosts(v) ==
    CASE v = "NDTVIE" -> NDTVIE_hosts
      [] v = "NDTVKhabarIE" -> NDTVKhabarIE_hosts
      [] v = "NDTVAutoIE" -> NDTVAutoIE_hosts
      [] v = "NDTVMoviesFoodSwirlsterIE" -> NDTVMoviesFoodSwirlsterIE_hosts
      [] v = "NDTVSportsIE" -> NDTVSportsIE_hosts
      [] v = "NDTVGadgetsIE" -> NDTVGadgetsIE_hosts
      [] v = "NDTVDoctorIE" -> NDTVDoctorIE_hosts

\* Path tokens: "video", "s", "/", "-", a digit, and any other text ("x").
Digits == {"7"}
PathTokens == {"video", "s", "/", "-", "x"} \cup Digits

\* [^/]+ and [^/?^&]+ : no token of the model is one of ? ^ &, so both classes
\* are "not a slash".
NotSlash(t) == t # "/"

\* (?:[^/]+/)* matched on p[from..to]: empty, or segments of one or more
\* non-slash tokens, each closed by a slash.
SegsOK(p, from, to) ==
    \/ to = from - 1
    \/ /\ to >= from + 1
       /\ to <= Len(p)
       /\ p[to] = "/"
       /\ p[from] # "/"
       /\ \A i \in from..(to - 1) : ~(p[i] = "/" /\ p[i + 1] = "/")

\* The ways
\*   (?:[^/]+/)*videos?/?(?:[^/]+/)*[^/?^&]+-(?P<id>\d+)
\* matches a prefix of the path p: a = end of the first (...)*, s = 1 when the
\* optional "s" is taken, l = 1 when the optional slash is taken, b = end of the
\* second (...)*, c = end of [^/?^&]+, d = end of \d+.
DigitEnds(p, a, s, l, b, c) ==
    {[a |-> a, s |-> s, l |-> l, b |-> b, c |-> c, d |-> d] :
        d \in {x \in (c + 2)..Len(p) : \A i \in (c + 2)..x : p[i] \in Digits}}

BodyEnds(p, a, s, l, b) ==
    UNION {DigitEnds(p, a, s, l, b, c) :
        c \in {x \in (b + 1)..(Len(p) - 1) :
                  /\ \A i \in (b + 1)..x : NotSlash(p[i])
                  /\ p[x + 1] = "-"}}

SecondSegs(p, a, s, l) ==
    UNION {BodyEnds(p, a, s, l, b) :
        b \in {x \in (a + 1 + s + l)..Len(p) : SegsOK(p, a + 2 + s + l, x)}}

OptSlash(p, a, s) ==
    UNION {SecondSegs(p, a, s, l) :
        l \in {x \in 0..1 : x = 1 => (a + 2 + s <= Len(p) /\ p[a + 2 + s] = "/")}}

OptS(p, a) ==
    UNION {OptSlash(p, a, s) :
        s \in {x \in 0..1 : x = 1 => (a + 2 <= Len(p) /\ p[a + 2] = "s")}}

PathParses(p) ==
    UNION {OptS(p, a) :
        a \in {x \in 0..(Len(p) - 1) : SegsOK(p, 1, x) /\ p[x + 1] = "video"}}

\* Every quantifier of the pattern is greedy: the regex engine returns the parse
\* that is largest in the order a, s, l, b, c, d.
Better(m, n) ==
    \/ m.a > n.a
    \/ m.a = n.a /\ m.s > n.s
    \/ m.a = n.a /\ m.s = n.s /\ m.l > n.l
    \/ m.a = n.a /\ m.s = n.s /\ m.l = n.l /\ m.b > n.b
    \/ m.a = n.a /\ m.s = n.s /\ m.l = n.l /\ m.b = n.b /\ m.c > n.c
    \/ m.a = n.a /\ m.s = n.s /\ m.l = n.l /\ m.b = n.b /\ m.c = n.c /\ m.d > n.d

FirstParse(p) ==
    CHOOSE m \in PathParses(p) : \A n \in PathParses(p) \ {m} : Better(m, n)

\* re.match(_VALID_URL, url): anchored at the start of the URL.
suitable(v, u) ==
    /\ u.scheme \in {"http://", "https://"}
    /\ u.host \in ValidHosts(v)
    /\ u.domain = ".ndtv.com/"
    /\ PathParses(u.path) # {}

\* The digit tokens of the group (?P<id>\d+).
match_id(u) ==
    LET m == FirstParse(u.path)
    IN  SubSeq(u.path, m.c + 2, m.d)

\* ------------------------------------------------- the boundary search
StartMarker == "<start>"
EndMarker == "<end>"
Literal == "{literal}"
TextTokens == {StartMarker, EndMarker, Literal, " ", "\n"}

\* \s matches a blank and a newline; . matches anything but a newline.
IsSpace(t) == t \in {" ", "\n"}
DotMatches(t) == t # "\n"

\* webpage.replace('\n', ' ')
ReplaceNewlines(t) == [i \in 1..Len(t) |-> IF t[i] = "\n" THEN " " ELSE t[i]]

\* The text each extractor hands to _search_regex.
Searched(v, t) ==
    IF v \in {"NDTVIE", "NDTVKhabarIE"} THEN t ELSE ReplaceNewlines(t)

\* Whether the start pattern ends in \s* (all but videoPlayerScript\( do).
StartTrailingSpace(v) == v # "NDTVAutoIE"

\* Whether the end pattern begins with \s*.
EndLeadingSpace(v) == v \in {"NDTVKhabarIE", "NDTVSportsIE"}

\* Whether the group is (.+) rather than (.+?).
GreedyGroup(v) == v = "NDTVMoviesFoodSwirlsterIE"

\* The ways the pattern matches with its start marker at t[i]: k tokens taken
\* by the start pattern's trailing \s*, then a group of n tokens, then w tokens
\* taken by the end pattern's leading \s*, then the end marker.
GroupParses(v, t, i) ==
    {m \in [k : 0..Len(t), n : 1..Len(t), w : 0..Len(t)] :
        /\ t[i] = StartMarker
        /\ i + m.k + m.n + m.w + 1 <= Len(t)
        /\ (m.k > 0 => StartTrailingSpace(v))
        /\ \A j \in (i + 1)..(i + m.k) : IsSpace(t[j])
        /\ \A j \in (i + m.k + 1)..(i + m.k + m.n) : DotMatches(t[j])
        /\ (m.w > 0 => EndLeadingSpace(v))
        /\ \A j \in (i + m.k + m.n + 1)..(i + m.k + m.n + m.w) : IsSpace(t[j])
        /\ t[i + m.k + m.n + m.w + 1] = EndMarker}

\* Backtracking order: \s* is greedy (largest k first), then the group is
\* lazy (smallest n first) or greedy (largest n first).
Preferred(v, m, o) ==
    \/ m.k > o.k
    \/ m.k = o.k /\ (IF GreedyGroup(v) THEN m.n > o.n ELSE m.n < o.n)
    \/ m.k = o.k /\ m.n = o.n /\ m.w > o.w

\* self._search_regex(pattern, text, 'playerdata', default=None, fatal=False):
\* group 1 of the leftmost match, None when the pattern matches nowhere.
SearchPlayerdata(v, text) ==
    LET t == Searched(v, text)
        starts == {i \in 1..Len(t) : GroupParses(v, t, i) # {}}
    IN  IF starts = {} THEN None
        ELSE LET i == CHOOSE x \in starts : \A y \in starts : x <= y
                 P == GroupParses(v, t, i)
                 m == CHOOSE x \in P : \A y \in P \ {x} : Preferred(v, x, y)
             IN  SubSeq(t, i + m.k + 1, i + m.k + m.n)

\* ------------------------------------------------------ Python's values
\* x is truthy: neither None nor "".
Truthy(x) == x # None /\ x # <<>>

\* a or b
Or(a, b) == IF Truthy(a) THEN a ELSE b

\* ------------------------------------------------------- the literal
Keys == {"id", "media_mp4", "media", "filePath", "title", "description", "dur", "duration"}

\* {}
EmptyDict == [k \in Keys |-> None]

NotSpace(t) == ~IsSpace(t)

\* self._parse_json(js_to_json(playerdata_str), 'playerdata_json', fatal=False) or {}
\* The text parses when, blanks aside, it is the page's literal and that
\* literal holds no JavaScript expression. A literal that parses to something
\* other than an object (a number, a list) is kept as it is: it is truthy.
ParsePlayerdata(playerdata_str, pg) ==
    IF SelectSeq(playerdata_str, NotSpace) = <<Literal>> /\ pg.lit.kind = "object"
    THEN [isdict |-> TRUE, items |-> pg.lit.items]
    ELSE IF SelectSeq(playerdata_str, NotSpace) = <<Literal>> /\ pg.lit.kind = "scalar"
    THEN [isdict |-> FALSE, items |-> EmptyDict]
    ELSE [isdict |-> TRUE, items |-> EmptyDict]

\* playerdata_json.get(key)
Get(playerdata_json, key) == playerdata_json.items[key]

\* ------------------------------------------------ the scalar normalizers
\* compat_urllib_parse_unquote_plus on one token: "+" is a blank, a percent
\* escape is the character it names.
DecodeToken(t) ==
    CASE t = "+" -> " "
      [] t = "%26" -> "&"
      [] t = "%2B" -> "+"
      [] OTHER -> t

\* compat_urllib_parse_unquote_plus(text), for a text that is not None.
compat_urllib_parse_unquote_plus(text) == [i \in 1..Len(text) |-> DecodeToken(text[i])]

\* The number a digit token writes.
NumberOf(t) ==
    CASE t = "137" -> 137
      [] t = "2" -> 2
      [] t = "17" -> 17

IsNumber(t) == t \in {"137", "2", "17"}

\* An optional number is the empty set or a singleton.
NoNumber == {}

\* int_or_none(v)
int_or_none(v) ==
    IF v # None /\ Len(v) = 1 /\ IsNumber(v[1]) THEN {NumberOf(v[1])} ELSE NoNumber

\* parse_duration(s): seconds, or MM:SS.
parse_duration(v) ==
    IF v = None THEN NoNumber
    ELSE IF Len(v) = 1 /\ IsNumber(v[1]) THEN {NumberOf(v[1])}
    ELSE IF Len(v) = 3 /\ IsNumber(v[1]) /\ v[2] = ":" /\ IsNumber(v[3])
    THEN {NumberOf(v[1]) * 60 + NumberOf(v[3])}
    ELSE NoNumber

IsYear(t) == t \in {"2017", "2019"}
IsMonth(t) == t \in {"01", "10"}
IsDay(t) == t \in {"20", "21", "29"}

\* unified_strdate(date_str): YYYY-MM-DD, with or without a time after it,
\* becomes YYYYMMDD; anything else, and None, gives None.
unified_strdate(d) ==
    IF /\ d # None
       /\ Len(d) >= 5
       /\ IsYear(d[1]) /\ d[2] = "-" /\ IsMonth(d[3]) /\ d[4] = "-" /\ IsDay(d[5])
       /\ (Len(d) > 5 => (Len(d) = 7 /\ d[6] = "T"))
    THEN <<d[1], d[3], d[5]>>
    ELSE None

\* remove_end(s, ' (Read more)')
remove_end(text) ==
    IF text # None /\ Len(text) >= 1 /\ text[Len(text)] = " (Read more)"
    THEN SubSeq(text, 1, Len(text) - 1)
    ELSE text

\* clean_html(html): entities decoded.
clean_html(text) ==
    IF text = None THEN None
    ELSE [i \in 1..Len(text) |-> IF text[i] = "&amp;" THEN "&" ELSE text[i]]

\* --------------------------------------------------- page lookups
\* self._html_search_meta(name, webpage, 'upload date', default=None)
html_search_meta(name, pg) == pg.meta[name]

\* self._search_regex(r'datePublished"\s*:\s*"([^"]+)"', webpage, 'upload date', fatal=False)
search_datePublished(pg) == pg.datePublished

\* An upload date that normalizes every candidate and keeps the first that
\* parses.
upload_date_any_parses(pg) ==
    Or(unified_strdate(html_search_meta("publish-date", pg)),
       Or(unified_strdate(html_search_meta("uploadDate", pg)),
          unified_strdate(search_datePublished(pg))))

\* The upload date every extractor computes.
upload_date(pg) ==
    unified_strdate(Or(html_search_meta("publish-date", pg),
                       Or(html_search_meta("uploadDate", pg),
                          search_datePublished(pg))))

\* self._og_search_thumbnail(webpage): not fatal.
og_search_thumbnail(pg) == pg.og["image"]

\* ------------------------------------------------------------ outcomes
\* The info dict an extractor returns.
Record(id, video_url, title, description, duration, date, thumbnail) ==
    [kind |-> "record", error |-> None, id |-> id, url |-> video_url, title |-> title,
     description |-> description, duration |-> duration, upload_date |-> date,
     thumbnail |-> thumbnail]

\* return {}
EmptyRecord ==
    [kind |-> "empty", error |-> None, id |-> None, url |-> None, title |-> None,
     description |-> None, duration |-> NoNumber, upload_date |-> None,
     thumbnail |-> None]

\* An exception leaving _real_extract.
Raised(e) == [EmptyRecord EXCEPT !.kind = "raised", !.error = <<e>>]

\* ------------------------------------------------------- the extractors
\* A page kept on the extractor between calls: the page of the call before.
download_webpage_stale(pg) == IF log # <<>> THEN log[Len(log)].page ELSE pg

\* webpage = self._download_webpage(url, video_id): the document handed in.
download_webpage(pg) == pg

\* NDTVIE._real_extract: the value it returns, or the exception it raises.
NDTVIE_id(video_id, playerdata_json) == Get(playerdata_json, "id")

NDTVIE_url(playerdata_json) == Or(Get(playerdata_json, "media_mp4"), Get(playerdata_json, "media"))

NDTVIE_extract(u, webpage) ==
    LET video_id == match_id(u)
        playerdata_str == SearchPlayerdata("NDTVIE", webpage.text)
        playerdata_json == ParsePlayerdata(playerdata_str, webpage)
    IN  IF playerdata_str # None
        THEN \* playerdata_json.get on a value that is no dict.
             IF ~playerdata_json.isdict THEN Raised("AttributeError")
             ELSE Record(NDTVIE_id(video_id, playerdata_json),
                         NDTVIE_url(playerdata_json),
                         Get(playerdata_json, "title"),
                         Get(playerdata_json, "description"),
                         int_or_none(Get(playerdata_json, "dur")),
                         upload_date(webpage),
                         og_search_thumbnail(webpage))
        ELSE EmptyRecord

NDTVIE_real_extract ==
    /\ pc = "ready"
    /\ suitable("NDTVIE", url)
    /\ outcome' = NDTVIE_extract(url, download_webpage(page))
    /\ handled' = "NDTVIE"
    /\ pc' = "done"
    /\ UNCHANGED <<url, page, log>>

\* NDTVKhabarIE._real_extract: the value it returns, or the exception it raises.
NDTVKhabarIE_id(video_id, playerdata_json) == Get(playerdata_json, "id")

\* media tried before media_mp4.
NDTVKhabarIE_url_media_first(playerdata_json) ==
    Or(Get(playerdata_json, "media"), Get(playerdata_json, "media_mp4"))

NDTVKhabarIE_url(playerdata_json) == Or(Get(playerdata_json, "media_mp4"), Get(playerdata_json, "media"))

NDTVKhabarIE_extract(u, webpage) ==
    LET video_id == match_id(u)
        playerdata_str == SearchPlayerdata("NDTVKhabarIE", webpage.text)
        playerdata_json == ParsePlayerdata(playerdata_str, webpage)
    IN  IF playerdata_str # None
        THEN \* playerdata_json.get on a value that is no dict.
             IF ~playerdata_json.isdict THEN Raised("AttributeError")
             ELSE Record(NDTVKhabarIE_id(video_id, playerdata_json),
                         NDTVKhabarIE_url(playerdata_json),
                         Get(playerdata_json, "title"),
                         Get(playerdata_json, "description"),
                         int_or_none(Get(playerdata_json, "dur")),
                         upload_date(webpage),
                         og_search_thumbnail(webpage))
        ELSE EmptyRecord

NDTVKhabarIE_real_extract ==
    /\ pc = "ready"
    /\ suitable("NDTVKhabarIE", url)
    /\ outcome' = NDTVKhabarIE_extract(url, download_webpage(page))
    /\ handled' = "NDTVKhabarIE"
    /\ pc' = "done"
    /\ UNCHANGED <<url, page, log>>

\* NDTVAutoIE._real_extract: the value it returns, or the exception it raises.
NDTVAutoIE_id(video_id, playerdata_json) == Get(playerdata_json, "id")

NDTVAutoIE_url(playerdata_json) == Get(playerdata_json, "filePath")

NDTVAutoIE_extract(u, webpage) ==
    LET video_id == match_id(u)
        playerdata_str == SearchPlayerdata("NDTVAutoIE", webpage.text)
        playerdata_json == ParsePlayerdata(playerdata_str, webpage)
    IN  IF playerdata_str # None
        THEN \* playerdata_json.get on a value that is no dict.
             IF ~playerdata_json.isdict THEN Raised("AttributeError")
             \* compat_urllib_parse_unquote_plus(None): None has no replace().
             ELSE IF Get(playerdata_json, "title") = None
                     \/ Get(playerdata_json, "description") = None
             THEN Raised("AttributeError")
             ELSE Record(NDTVAutoIE_id(video_id, playerdata_json),
                         NDTVAutoIE_url(playerdata_json),
                         compat_urllib_parse_unquote_plus(Get(playerdata_json, "title")),
                         compat_urllib_parse_unquote_plus(Get(playerdata_json, "description")),
                         int_or_none(Get(playerdata_json, "duration")),
                         upload_date(webpage),
                         og_search_thumbnail(webpage))
        ELSE EmptyRecord

NDTVAutoIE_real_extract ==
    /\ pc = "ready"
    /\ suitable("NDTVAutoIE", url)
    /\ outcome' = NDTVAutoIE_extract(url, download_webpage(page))
    /\ handled' = "NDTVAutoIE"
    /\ pc' = "done"
    /\ UNCHANGED <<url, page, log>>

\* NDTVMoviesFoodSwirlsterIE._real_extract: the value it returns, or the exception it raises.
NDTVMoviesFoodSwirlsterIE_id(video_id, playerdata_json) == Get(playerdata_json, "id")

NDTVMoviesFoodSwirlsterIE_url(playerdata_json) == Get(playerdata_json, "media")

NDTVMoviesFoodSwirlsterIE_extract(u, webpage) ==
    LET video_id == match_id(u)
        playerdata_str == SearchPlayerdata("NDTVMoviesFoodSwirlsterIE", webpage.text)
        playerdata_json == ParsePlayerdata(playerdata_str, webpage)
    IN  IF playerdata_str # None
        THEN \* playerdata_json.get on a value that is no dict.
             IF ~playerdata_json.isdict THEN Raised("AttributeError")
             \* compat_urllib_parse_unquote_plus(None): None has no replace().
             ELSE IF Get(playerdata_json, "title") = None
                     \/ Get(playerdata_json, "description") = None
             THEN Raised("AttributeError")
             ELSE Record(NDTVMoviesFoodSwirlsterIE_id(video_id, playerdata_json),
                         NDTVMoviesFoodSwirlsterIE_url(playerdata_json),
                         compat_urllib_parse_unquote_plus(Get(playerdata_json, "title")),
                         compat_urllib_parse_unquote_plus(Get(playerdata_json, "description")),
                         int_or_none(Get(playerdata_json, "dur")),
                         upload_date(webpage),
                         og_search_thumbnail(webpage))
        ELSE EmptyRecord

NDTVMoviesFoodSwirlsterIE_real_extract ==
    /\ pc = "ready"
    /\ suitable("NDTVMoviesFoodSwirlsterIE", url)
    /\ outcome' = NDTVMoviesFoodSwirlsterIE_extract(url, download_webpage(page))
    /\ handled' = "NDTVMoviesFoodSwirlsterIE"
    /\ pc' = "done"
    /\ UNCHANGED <<url, page, log>>

\* NDTVSportsIE._real_extract: the value it returns, or the exception it raises.
\* The URL's identifier standing in for a missing id key.
NDTVSportsIE_id_or_url(video_id, playerdata_json) ==
    Or(Get(playerdata_json, "id"), video_id)

NDTVSportsIE_id(video_id, playerdata_json) == Get(playerdata_json, "id")

NDTVSportsIE_url(playerdata_json) == Get(playerdata_json, "media")

NDTVSportsIE_extract(u, webpage) ==
    LET video_id == match_id(u)
        playerdata_str == SearchPlayerdata("NDTVSportsIE", webpage.text)
        playerdata_json == ParsePlayerdata(playerdata_str, webpage)
    IN  IF playerdata_str # None
        THEN \* playerdata_json.get on a value that is no dict.
             IF ~playerdata_json.isdict THEN Raised("AttributeError")
             ELSE Record(NDTVSportsIE_id(video_id, playerdata_json),
                         NDTVSportsIE_url(playerdata_json),
                         Get(playerdata_json, "title"),
                         Get(playerdata_json, "description"),
                         parse_duration(Get(playerdata_json, "dur")),
                         upload_date(webpage),
                         og_search_thumbnail(webpage))
        ELSE EmptyRecord

NDTVSportsIE_real_extract ==
    /\ pc = "ready"
    /\ suitable("NDTVSportsIE", url)
    /\ outcome' = NDTVSportsIE_extract(url, download_webpage(page))
    /\ handled' = "NDTVSportsIE"
    /\ pc' = "done"
    /\ UNCHANGED <<url, page, log>>

\* NDTVGadgetsIE._real_extract: the value it returns, or the exception it raises.
NDTVGadgetsIE_id(video_id, playerdata_json) == Get(playerdata_json, "id")

NDTVGadgetsIE_url(playerdata_json) == Get(playerdata_json, "media")

NDTVGadgetsIE_extract(u, webpage) ==
    LET video_id == match_id(u)
        playerdata_str == SearchPlayerdata("NDTVGadgetsIE", webpage.text)
        playerdata_json == ParsePlayerdata(playerdata_str, webpage)
    IN  IF playerdata_str # None
        THEN \* playerdata_json.get on a value that is no dict.
             IF ~playerdata_json.isdict THEN Raised("AttributeError")
             ELSE Record(NDTVGadgetsIE_id(video_id, playerdata_json),
                         NDTVGadgetsIE_url(playerdata_json),
                         Get(playerdata_json, "title"),
                         Get(playerdata_json, "description"),
                         parse_duration(Get(playerdata_json, "dur")),
                         upload_date(webpage),
                         og_search_thumbnail(webpage))
        ELSE EmptyRecord

NDTVGadgetsIE_real_extract ==
    /\ pc = "ready"
    /\ suitable("NDTVGadgetsIE", url)
    /\ outcome' = NDTVGadgetsIE_extract(url, download_webpage(page))
    /\ handled' = "NDTVGadgetsIE"
    /\ pc' = "done"
    /\ UNCHANGED <<url, page, log>>

\* self._search_regex(r"\"title\"\s*:\s*\"([^\"]+)\"", webpage, 'title', default=None)
\* and the two other inline patterns: the first match on the page, or None.
search_inline(key, pg) == pg.inline[key]

\* self._og_search_title(webpage) is fatal; self._og_search_description(webpage)
\* is not.
og_search(prop, pg) == pg.og[prop]

\* The text NDTVDoctorIE decodes into the title.
NDTVDoctorIE_title_source(webpage) ==
    Or(search_inline("title", webpage), og_search("title", webpage))

NDTVDoctorIE_id(video_id, webpage) == video_id

\* NDTVDoctorIE._real_extract: the value it returns, or the exception it raises.
NDTVDoctorIE_extract(u, webpage) ==
    LET video_id == match_id(u)
    IN  \* _og_search_title finds no og:title.
        IF ~Truthy(search_inline("title", webpage)) /\ og_search("title", webpage) = None
        THEN Raised("RegexNotFoundError")
        \* _search_regex(..., 'video filename') finds no "media".
        ELSE IF search_inline("media", webpage) = None
        THEN Raised("RegexNotFoundError")
        ELSE Record(NDTVDoctorIE_id(video_id, webpage),
                    search_inline("media", webpage),
                    compat_urllib_parse_unquote_plus(NDTVDoctorIE_title_source(webpage)),
                    clean_html(remove_end(og_search("description", webpage))),
                    parse_duration(search_inline("dur", webpage)),
                    upload_date(webpage),
                    og_search_thumbnail(webpage))

NDTVDoctorIE_real_extract ==
    /\ pc = "ready"
    /\ suitable("NDTVDoctorIE", url)
    /\ outcome' = NDTVDoctorIE_extract(url, download_webpage(page))
    /\ handled' = "NDTVDoctorIE"
    /\ pc' = "done"
    /\ UNCHANGED <<url, page, log>>

\* --------------------------------------------------------------- inputs
Origin(scheme, host, domain) == [scheme |-> scheme, host |-> host, domain |-> domain]

URL(o, path) == [scheme |-> o.scheme, host |-> o.host, domain |-> o.domain, path |-> path]

AllHosts == UNION {ValidHosts(v) : v \in Variants}

\* Every host of the family under https, one under http, and three origins
\* no pattern accepts.
Origins ==
    {Origin("https://", h, ".ndtv.com/") : h \in AllHosts}
    \cup {Origin("http://", "profit", ".ndtv.com/"),
          Origin("ftp://", "www", ".ndtv.com/"),
          Origin("https://", "m", ".ndtv.com/"),
          Origin("https://", "www", ".example.com/")}

AllURLs == {URL(o, p) : o \in Origins, p \in SeqsUpTo(PathTokens, MaxPath)}

\* One URL per host, as in the _TESTS entries, with two identifiers.
FixtureURLs ==
    {URL(Origin("https://", h, ".ndtv.com/"), p) :
        h \in AllHosts,
        p \in {<<"video", "s", "/", "x", "-", "7">>,
               <<"x", "/", "video", "/", "x", "-", "7", "7">>}}

Title == <<"Q", "%26", "A", "+", "Live">>
Description == <<"More", "+", "info">>

Items(id, media_mp4, media, filePath, title, description, dur) ==
    [id |-> id, media_mp4 |-> media_mp4, media |-> media, filePath |-> filePath,
     title |-> title, description |-> description, dur |-> dur, duration |-> dur]

\* The literals a page may embed: every object over the keys the extractors
\* read, an object holding a JavaScript expression, and a literal that is not
\* an object.
Objects ==
    {[kind |-> "object", items |-> Items(i, m4, m, f, t, d, n)] :
        i \in {None, <<"7">>},
        m4 \in {None, <<>>, <<"a.mp4">>},
        m \in {None, <<>>, <<"b.mp4">>},
        f \in {None, <<"f.mp4">>},
        t \in {None, Title},
        d \in {None, Description},
        n \in {None, <<"137">>}}

JsCode == [kind |-> "jscode", items |-> EmptyDict]
Scalar == [kind |-> "scalar", items |-> EmptyDict]
Literals == Objects \cup {JsCode, Scalar}

FixtureLiteral ==
    [kind |-> "object",
     items |-> Items(<<"7">>, <<"a.mp4">>, <<"b.mp4">>, <<"f.mp4">>, Title, Description, <<"137">>)]

PublishDate == <<"2017", "-", "10", "-", "20">>
UploadDate == <<"2017", "-", "10", "-", "21">>
DatePublished == <<"2019", "-", "01", "-", "29", "T", "10:00">>
BadDate == <<"soon">>

Meta(publish, upload) == [x \in {"publish-date", "uploadDate"} |->
                             IF x = "publish-date" THEN publish ELSE upload]
Og(title, description, image) == [title |-> title, description |-> description, image |-> image]
Inline(title, media, dur) == [title |-> title, media |-> media, dur |-> dur]

OgTitle == <<"Og", "+", "Title">>
OgDescription == <<"Top", "&amp;", "+", "best", " (Read more)">>

Page(text, lit, meta, datePublished, og, inline) ==
    [text |-> text, lit |-> lit, meta |-> meta, datePublished |-> datePublished,
     og |-> og, inline |-> inline]

FixtureText == <<StartMarker, Literal, EndMarker>>
FixtureMeta == Meta(PublishDate, None)
FixtureOg == Og(OgTitle, OgDescription, <<"t.jpg">>)
FixtureInline == Inline(<<"In", "+", "Title">>, <<"d.mp4">>, <<"2", ":", "17">>)

FixturePage ==
    Page(FixtureText, FixtureLiteral, FixtureMeta, None, FixtureOg, FixtureInline)

\* Pages that vary the script text around the literal.
TextPages ==
    {Page(t, l, FixtureMeta, None, FixtureOg, FixtureInline) :
        t \in SeqsUpTo(TextTokens, MaxText), l \in {FixtureLiteral, JsCode}}

\* Pages that vary the literal.
LiteralPages ==
    {Page(FixtureText, l, FixtureMeta, None, FixtureOg, FixtureInline) : l \in Literals}

\* Pages that vary the tags and the inline matches, with and without a literal.
TagPages ==
    {Page(t, FixtureLiteral, Meta(p, u), d, Og(o, od, <<"t.jpg">>), Inline(it, im, <<"2", ":", "17">>)) :
        t \in {<<>>, FixtureText},
        p \in {None, <<>>, BadDate, PublishDate},
        u \in {None, <<>>, BadDate, UploadDate},
        d \in {None, BadDate, DatePublished},
        o \in {None, OgTitle},
        od \in {None, OgDescription},
        it \in {None, <<"In", "+", "Title">>},
        im \in {None, <<"d.mp4">>}}

Pages == TextPages \cup LiteralPages \cup TagPages

\* The pages and URLs of a caller that extracts several times: the fixture,
\* a page without the literal, and a page whose literal lacks id and title.
CallPages ==
    {FixturePage,
     Page(<<>>, FixtureLiteral, FixtureMeta, None, FixtureOg, FixtureInline),
     Page(FixtureText,
          [kind |-> "object",
           items |-> Items(None, None, <<"b.mp4">>, None, None, Description, None)],
          FixtureMeta, None, FixtureOg, Inline(None, <<"d.mp4">>, None))}

CallURLs ==
    {URL(Origin("https://", h, ".ndtv.com/"), <<"video", "s", "/", "x", "-", "7">>) :
        h \in {"www", "khabar", "auto", "movies", "sports", "gadgets", "doctor"}}

\* ----------------------------------------------------------- the machine
\* No extraction has returned yet.
Pending == [EmptyRecord EXCEPT !.kind = "pending"]

Start(urls, pages) ==
    /\ url \in urls
    /\ page \in pages
    /\ pc = "ready"
    /\ handled = "none"
    /\ outcome = Pending
    /\ log = <<>>

Init == Start(FixtureURLs, Pages)

InitRouter == Start(AllURLs, {FixturePage})

InitCalls == Start(CallURLs, CallPages)

Next ==
    \/ NDTVIE_real_extract
    \/ NDTVKhabarIE_real_extract
    \/ NDTVAutoIE_real_extract
    \/ NDTVMoviesFoodSwirlsterIE_real_extract
    \/ NDTVSportsIE_real_extract
    \/ NDTVGadgetsIE_real_extract
    \/ NDTVDoctorIE_real_extract

\* The caller notes the call it made and extracts again, from any URL and
\* page it holds.
Invoke ==
    /\ pc = "done"
    /\ Len(log) < MaxCalls
    /\ \E u \in CallURLs, pg \in CallPages :
          /\ url' = u
          /\ page' = pg
    /\ log' = Append(log, [url |-> url, page |-> page, outcome |-> outcome])
    /\ pc' = "ready"
    /\ handled' = "none"
    /\ outcome' = Pending

NextCalls == Next \/ Invoke

Spec == Init /\ [][Next]_vars

SpecRouter == InitRouter /\ [][Next]_vars

SpecCalls == InitCalls /\ [][NextCalls]_vars

\* ================================================================ claims
BoundaryVariants == Variants \ {"NDTVDoctorIE"}

Returned == pc = "done" /\ outcome.kind = "record"

\* The literal as the extractor that ran saw it.
SeenPlayerdata == ParsePlayerdata(SearchPlayerdata(handled, page.text), page)

\* The first non-empty upload-date candidate, in the order publish-date,
\* uploadDate, datePublished; None when there is none.
FirstDateCandidate ==
    IF Truthy(page.meta["publish-date"]) THEN page.meta["publish-date"]
    ELSE IF Truthy(page.meta["uploadDate"]) THEN page.meta["uploadDate"]
    ELSE IF Truthy(page.datePublished) THEN page.datePublished
    ELSE None

DateCandidates == {page.meta["publish-date"], page.meta["uploadDate"], page.datePublished}

\* YYYYMMDD
IsCanonicalDate(d) == d # None /\ Len(d) = 3 /\ IsYear(d[1]) /\ IsMonth(d[2]) /\ IsDay(d[3])

\* C1: an extraction that returns, returns a record whose id and mediaURL are
\* both non-empty; it never returns an empty record or a record in which one of
\* the two is empty or undefined.
C1_RequiredFieldsPopulated ==
    (pc = "done" /\ outcome.kind # "raised")
        => (outcome.kind = "record" /\ Truthy(outcome.id) /\ Truthy(outcome.url))

\* C2: when the boundary markers are absent but the page has its title and
\* date tags, the extraction still yields a record with title and uploadDate
\* populated and the duration omitted.
C2_MissingBoundaryIsSoft ==
    (/\ pc = "done"
     /\ handled \in BoundaryVariants
     /\ SearchPlayerdata(handled, page.text) = None
     /\ Truthy(page.og["title"])
     /\ unified_strdate(page.meta["publish-date"]) # None)
        => (/\ outcome.kind = "record"
            /\ Truthy(outcome.title)
            /\ Truthy(outcome.upload_date)
            /\ outcome.duration = NoNumber)

\* C3: no extraction ends by raising an exception.
C3_NothingRaised == outcome.kind # "raised"

\* C4: at most one variant's URL pattern matches a URL, so the extractor that
\* runs is the only one that could.
C4_RouterExclusive ==
    /\ Cardinality({v \in Variants : suitable(v, url)}) <= 1
    /\ pc = "done" => \A v \in Variants : suitable(v, url) => v = handled

C4_Witness == pc = "done" /\ handled = "NDTVKhabarIE" /\ url.scheme = "https://"

\* The text strictly between the first start marker and the first end marker
\* after it, in the text t; None when either is missing.
ShortestSpan(t) ==
    LET starts == {i \in 1..Len(t) : t[i] = StartMarker}
    IN  IF starts = {} THEN None
        ELSE LET f == CHOOSE i \in starts : \A j \in starts : i <= j
                 ends == {i \in (f + 1)..Len(t) : t[i] = EndMarker}
             IN  IF ends = {} THEN None
                 ELSE LET e == CHOOSE i \in ends : \A j \in ends : i <= j
                      IN  SubSeq(t, f + 1, e - 1)

\* The tokens of a text that are not blanks.
Solid(t) == SelectSeq(t, NotSpace)

\* C5: in every variant that searches a boundary, the text found is the text
\* between the first start marker and the first end marker after it (blanks
\* around it aside), whenever there is such a text.
C5_BoundaryNonGreedy ==
    (/\ pc = "done"
     /\ handled \in BoundaryVariants
     /\ SearchPlayerdata(handled, page.text) # None
     /\ ShortestSpan(Searched(handled, page.text)) # None
     /\ Solid(ShortestSpan(Searched(handled, page.text))) # <<>>)
        => Solid(SearchPlayerdata(handled, page.text))
              = Solid(ShortestSpan(Searched(handled, page.text)))

\* C6: the first strategy with a non-empty value wins: in www/profit and
\* khabar the media URL is media_mp4 when that is non-empty and media only
\* otherwise; the upload date comes from publish-date, else from uploadDate,
\* else from datePublished, and never from a later one when an earlier one is
\* non-empty.
C6_FirstNonEmptyWins ==
    Returned =>
        /\ handled \in {"NDTVIE", "NDTVKhabarIE"} =>
              /\ Truthy(SeenPlayerdata.items["media_mp4"])
                    => outcome.url = SeenPlayerdata.items["media_mp4"]
              /\ ~Truthy(SeenPlayerdata.items["media_mp4"])
                    => outcome.url = SeenPlayerdata.items["media"]
        /\ Truthy(page.meta["publish-date"])
              => outcome.upload_date = unified_strdate(page.meta["publish-date"])
        /\ (~Truthy(page.meta["publish-date"]) /\ Truthy(page.meta["uploadDate"]))
              => outcome.upload_date = unified_strdate(page.meta["uploadDate"])
        /\ (~Truthy(page.meta["publish-date"]) /\ ~Truthy(page.meta["uploadDate"]))
              => outcome.upload_date = unified_strdate(page.datePublished)

C6_Witness ==
    /\ Returned
    /\ handled = "NDTVKhabarIE"
    /\ Truthy(SeenPlayerdata.items["media_mp4"])
    /\ Truthy(SeenPlayerdata.items["media"])
    /\ outcome.url = <<"a.mp4">>
    /\ ~Truthy(page.meta["publish-date"])
    /\ Truthy(page.meta["uploadDate"])
    /\ Truthy(page.datePublished)
    /\ outcome.upload_date = <<"2017", "10", "21">>

\* C7 as stated: a returned record lacks uploadDate if and only if none of
\* the date candidates on the page parses.
C7_PopulatedIffAnyParses ==
    Returned =>
        (outcome.upload_date = None
            <=> \A d \in DateCandidates : unified_strdate(d) = None)

\* C7 as amended: a returned record lacks uploadDate if and only if the first
\* non-empty candidate, in the order publish-date, uploadDate, datePublished,
\* is missing or does not parse; otherwise uploadDate is that candidate in
\* YYYYMMDD form. A later candidate that parses is not consulted.
C7_FirstCandidateDecides ==
    Returned =>
        /\ outcome.upload_date = None <=> unified_strdate(FirstDateCandidate) = None
        /\ outcome.upload_date # None =>
              /\ IsCanonicalDate(outcome.upload_date)
              /\ outcome.upload_date
                    = <<FirstDateCandidate[1], FirstDateCandidate[3], FirstDateCandidate[5]>>

C7_Witness ==
    /\ Returned
    /\ page.meta["publish-date"] = BadDate
    /\ page.meta["uploadDate"] = UploadDate
    /\ outcome.upload_date = None

\* C8: a title taken from the open-graph fallback is placed in the record as
\* it is, without percent/plus decoding, in every variant.
C8_FallbackTitleNotDecoded ==
    (/\ Returned
     /\ handled = "NDTVDoctorIE"
     /\ ~Truthy(page.inline["title"]))
        => outcome.title = page.og["title"]

C10_IdProvenance ==
    Returned =>
        IF handled = "NDTVDoctorIE"
        THEN outcome.id = match_id(url)
        ELSE /\ outcome.id = SeenPlayerdata.items["id"]
             /\ outcome.id \in {None, page.lit.items["id"]}

C10_Witness ==
    /\ Returned
    /\ handled = "NDTVSportsIE"
    /\ page.lit.kind = "object"
    /\ page.lit.items["id"] = None
    /\ match_id(url) = <<"7", "7">>
    /\ outcome.id = None

====
